---- MODULE Spec2Model ----
(***************************************************************************)
(* Model of raydium-library's common crate:                                *)
(*   libraries/common/src/keypair.rs   - the sendable signing key          *)
(*   libraries/common/src/rpc_async.rs - the transaction pipeline          *)
(*                                                                         *)
(* Rust outcomes are records: Ok(v) is [kind |-> "Ok", value |-> v],       *)
(* Err(e) is [kind |-> "Err", error |-> e]; a panic (an unwrap() of an     *)
(* Err) is [kind |-> "Panic", error |-> e] and never reaches the caller as *)
(* a value.                                                                *)
(*                                                                         *)
(* The ed25519 scheme is replaced by a scaled scheme over short byte       *)
(* strings: a key buffer is SECRET_KEY_LENGTH secret bytes followed by as  *)
(* many public bytes, the public point of a secret doubles each byte, and  *)
(* a byte string is a point when all its bytes are even.                   *)
(***************************************************************************)
EXTENDS Integers, Sequences, FiniteSets, TLC

\* ------------------------------------------------------------- bounds
\* Bytes of each half of a key buffer (32 in the program).
SECRET_KEY_LENGTH == 1
\* Distinct key pairs that exist.
NumSecrets == 2
\* Workers sharing one Keypair instance.
NumWorkers == 2
\* Longest text handed to from_base58_string.
MaxTextLen == 3
\* Longest instruction list and longest key list handed to build_txn.
MaxInstructions == 2
MaxKeys == 2
\* Latest blockhash the network reaches (it starts at 1; 0 is Hash::default()).
MaxHash == 2

\* ------------------------------------------------------------ results
Ok(v) == [kind |-> "Ok", value |-> v]
Err(e) == [kind |-> "Err", error |-> e]
Panic(e) == [kind |-> "Panic", error |-> e]
\* No call has returned yet.
Pending == [kind |-> "Pending"]

IsOk(r) == r.kind = "Ok"
IsErr(r) == r.kind = "Err"
IsPanic(r) == r.kind = "Panic"

\* ------------------------------------------- the signature scheme (sdk)
KEYPAIR_LENGTH == SECRET_KEY_LENGTH + SECRET_KEY_LENGTH

\* The n-th secret.
SecretOf(n) == [i \in 1..SECRET_KEY_LENGTH |-> n]

\* The public point of a secret.
PointOf(secret) == [i \in 1..Len(secret) |-> (2 * secret[i]) % 256]

\* Whether a byte string decompresses to a point.
ValidPoint(p) == \A i \in 1..Len(p) : p[i] % 2 = 0

\* A byte string that is no point.
BadPoint == [i \in 1..SECRET_KEY_LENGTH |-> 255]

\* signature::Keypair values: the non-shareable signing context.
GenKeypair(n) == [secret |-> SecretOf(n), public |-> PointOf(SecretOf(n))]
Keypairs == {GenKeypair(n) : n \in 1..NumSecrets}

\* signature::Keypair::to_bytes
KeypairToBytes(kp) == kp.secret \o kp.public

\* signature::Keypair::from_bytes: the length, then the public half.
KeypairFromBytes(bytes) ==
    IF Len(bytes) # KEYPAIR_LENGTH
    THEN Err("SignatureError")
    ELSE LET secret == SubSeq(bytes, 1, SECRET_KEY_LENGTH)
             public == SubSeq(bytes, SECRET_KEY_LENGTH + 1, KEYPAIR_LENGTH)
         IN IF ValidPoint(public)
            THEN Ok([secret |-> secret, public |-> public])
            ELSE Err("SignatureError")

\* signature::Keypair::pubkey
KeypairPubkey(kp) == kp.public

\* Signature::default(): all zero, a signature of nothing.
DefaultSignature == [by |-> <<>>, msg |-> <<>>]

\* signature::Keypair::try_sign_message (never fails for a local key pair): a
\* signature made with a secret over a message, which only the point of that
\* secret verifies.
KeypairSign(kp, message) == [by |-> PointOf(kp.secret), msg |-> message]

\* Signature::verify
Verify(pubkey, message, sig) == sig.by = pubkey /\ sig.msg = message

\* ------------------------------------------------ keypair.rs: Keypair
\* Keypair::from_keypair / Keypair::new
FromKeypair(kp) == [keypair |-> KeypairToBytes(kp)]

\* SendableSigner::to_keypair
ToKeypair(self) ==
    LET r == KeypairFromBytes(self.keypair)
    IN IF IsOk(r) THEN r ELSE Panic(r.error)

\* The first half of try_pubkey and try_sign_message: the context rebuilt
\* from the stored bytes, its error mapped to SignerError::Custom.
RebuildContext(self) ==
    LET r == KeypairFromBytes(self.keypair)
    IN IF IsOk(r) THEN r ELSE Err("Custom")

\* Signer::try_pubkey
TryPubkey(self) ==
    LET r == RebuildContext(self)
    IN IF IsOk(r) THEN Ok(KeypairPubkey(r.value)) ELSE r

\* Signer::try_sign_message
TrySignMessage(self, message) ==
    LET r == RebuildContext(self)
    IN IF IsOk(r) THEN Ok(KeypairSign(r.value, message)) ELSE r

\* Signer::is_interactive
IsInteractive(self) == FALSE

\* ------------------------------------------------------------ base 58
\* The bs58 alphabet (Bitcoin's): no "0", "O", "I" or "l".
Alphabet ==
    << "1", "2", "3", "4", "5", "6", "7", "8", "9",
       "A", "B", "C", "D", "E", "F", "G", "H", "J", "K", "L", "M", "N",
       "P", "Q", "R", "S", "T", "U", "V", "W", "X", "Y", "Z",
       "a", "b", "c", "d", "e", "f", "g", "h", "i", "j", "k", "m", "n",
       "o", "p", "q", "r", "s", "t", "u", "v", "w", "x", "y", "z" >>

IsBase58Char(c) == \E i \in 1..Len(Alphabet) : Alphabet[i] = c

\* The digit a character stands for, 0..57.
DigitOf(c) == (CHOOSE i \in 1..Len(Alphabet) : Alphabet[i] = c) - 1

\* One pass of bs58's inner loop: val is carried through the bytes written
\* so far (least significant first), each becoming (byte * 58 + val) & 0xFF.
RECURSIVE CarryThrough(_, _, _)
CarryThrough(out, i, val) ==
    IF i > Len(out)
    THEN [out |-> out, val |-> val]
    ELSE LET v == val + out[i] * 58
         IN CarryThrough([out EXCEPT ![i] = v % 256], i + 1, v \div 256)

\* while val > 0: push val & 0xFF; val >>= 8
RECURSIVE PushCarry(_, _)
PushCarry(out, val) ==
    IF val = 0 THEN out ELSE PushCarry(Append(out, val % 256), val \div 256)

\* The characters of the text folded into the little-endian byte string.
RECURSIVE DecodeDigits(_, _, _)
DecodeDigits(text, i, out) ==
    IF i > Len(text)
    THEN out
    ELSE LET c == CarryThrough(out, 1, DigitOf(text[i]))
         IN DecodeDigits(text, i + 1, PushCarry(c.out, c.val))

\* The number of leading "1" characters: each is one leading zero byte.
RECURSIVE LeadingZeros(_, _)
LeadingZeros(text, i) ==
    IF i > Len(text) \/ text[i] # Alphabet[1] THEN 0 ELSE 1 + LeadingZeros(text, i + 1)

Reverse(s) == [i \in 1..Len(s) |-> s[Len(s) + 1 - i]]

\* bs58::decode(s).into_vec()
Bs58Decode(text) ==
    IF \E i \in 1..Len(text) : ~IsBase58Char(text[i])
    THEN Err("InvalidCharacter")
    ELSE LET digits == DecodeDigits(text, 1, <<>>)
             zeros == [i \in 1..LeadingZeros(text, 1) |-> 0]
         IN Ok(Reverse(digits \o zeros))

\* signature::Keypair::from_base58_string: both results unwrapped.
KeypairFromBase58String(text) ==
    LET d == Bs58Decode(text)
    IN IF ~IsOk(d)
       THEN Panic(d.error)
       ELSE LET k == KeypairFromBytes(d.value)
            IN IF IsOk(k) THEN k ELSE Panic(k.error)

\* Keypair::from_base58_string
FromBase58String(text) ==
    LET k == KeypairFromBase58String(text)
    IN IF IsOk(k) THEN Ok(FromKeypair(k.value)) ELSE k

\* ------------------------------------------- message and transaction (sdk)
\* A Pubkey is the public point of a key pair.
PubkeyOf(n) == PointOf(SecretOf(n))
Pubkeys == {PubkeyOf(n) : n \in 1..NumSecrets}

\* The sequences over S of length at most n.
SeqsUpTo(S, n) == UNION {[1..k -> S] : k \in 0..n}

\* The elements of a sequence in order of first appearance.
RECURSIVE Dedup(_)
Dedup(s) ==
    IF s = <<>>
    THEN <<>>
    ELSE LET front == Dedup(SubSeq(s, 1, Len(s) - 1))
             last == s[Len(s)]
         IN IF \E i \in 1..Len(front) : front[i] = last THEN front ELSE Append(front, last)

\* The account metas of the instructions, in order.
RECURSIVE AllMetas(_)
AllMetas(instrs) ==
    IF instrs = <<>> THEN <<>> ELSE instrs[1].accounts \o AllMetas(Tail(instrs))

\* Message::new_with_blockhash: the payer first, then every signer account, then
\* the accounts that sign nowhere and the programs; the header counts the
\* signers.
NewMessageWithBlockhash(instrs, payer, hash) ==
    LET metas == AllMetas(instrs)
        signers == Dedup(<<payer>> \o SelectSeq([i \in 1..Len(metas) |-> metas[i].pubkey],
                      LAMBDA k : \E i \in 1..Len(metas) : metas[i].pubkey = k /\ metas[i].is_signer))
        others == Dedup(SelectSeq([i \in 1..Len(metas) |-> metas[i].pubkey]
                                  \o [i \in 1..Len(instrs) |-> instrs[i].program_id],
                      LAMBDA k : \A i \in 1..Len(signers) : signers[i] # k))
    IN [header |-> [num_required_signatures |-> Len(signers)],
        account_keys |-> signers \o others,
        recent_blockhash |-> hash,
        instructions |-> instrs]

\* Transaction::new_unsigned: one default signature per required signer.
NewUnsigned(message) ==
    [signatures |-> [i \in 1..message.header.num_required_signatures |-> DefaultSignature],
     message |-> message]

\* Transaction::message_data: the serialized message.
MessageData(message) ==
    << message.header.num_required_signatures, message.account_keys,
       message.recent_blockhash, message.instructions >>

\* Transaction::get_signing_keypair_positions: for each pubkey its index among
\* the first num_required_signatures account keys, 0 for none.
SigningKeypairPositions(tx, pubkeys) ==
    LET n == tx.message.header.num_required_signatures
        Position(k) == IF \E i \in 1..n : tx.message.account_keys[i] = k
                       THEN CHOOSE i \in 1..n : tx.message.account_keys[i] = k
                       ELSE 0
    IN [j \in 1..Len(pubkeys) |-> Position(pubkeys[j])]

\* try_partial_sign handed Hash::default() instead of the fetched blockhash.
WithDefaultBlockhash(tx, hash) ==
    [signatures |-> [i \in 1..Len(tx.signatures) |-> DefaultSignature],
     message |-> [tx.message EXCEPT !.recent_blockhash = 0]]

\* The head of try_partial_sign_unchecked: another blockhash than the
\* message's replaces it and clears every signature.
WithBlockhash(tx, hash) ==
    IF hash # tx.message.recent_blockhash
    THEN [signatures |-> [i \in 1..Len(tx.signatures) |-> DefaultSignature],
          message |-> [tx.message EXCEPT !.recent_blockhash = hash]]
    ELSE tx

\* Transaction::verify: every signature slot verifies against its account key.
TransactionVerifies(tx) ==
    /\ Len(tx.signatures) = tx.message.header.num_required_signatures
    /\ \A i \in 1..Len(tx.signatures) :
           Verify(tx.message.account_keys[i], MessageData(tx.message), tx.signatures[i])

\* ---------------------------------------------------------------- state
VARIABLES
    \* one Keypair shared by the workers, and each worker's call
    key, wpc, wop, wmsg, wctx, wret,
    \* from_base58_string: the text and the outcome
    text, tpc, tret,
    \* build_txn: the arguments, the locals, the outcome
    instructions, fee_payer, signing_keypairs_sendable,
    bpc, blockhash, transaction, signing_keypairs, positions, signatures, idx, bret,
    \* the network: the latest blockhash, and its answers to get_latest_blockhash
    chainHash, served,
    \* the network: the accounts, and what became of each transaction sent
    ledger, status,
    \* one pipeline call on the client: the operation, where it stands, the
    \* requests it made, the client's result, the value returned
    call, pc, requests, answer, ret,
    \* whether send_txn or send_without_confirm_txn was ever called
    submitted

keyVars == << key, wpc, wop, wmsg, wctx, wret >>
textVars == << text, tpc, tret >>
buildVars == << instructions, fee_payer, signing_keypairs_sendable, bpc, blockhash,
                transaction, signing_keypairs, positions, signatures, idx, bret,
                chainHash, served >>
rpcVars == << ledger, status, call, pc, requests, answer, ret, submitted >>
vars == << keyVars, textVars, buildVars, rpcVars >>

\* A local not yet assigned.
None == [kind |-> "None"]

\* ------------------------------------------------------------ build_txn
\* The 64-byte buffers a caller may hold: the bytes of each key pair, and one
\* whose public half is no point.
KeyBuffers == {KeypairToBytes(kp) : kp \in Keypairs} \cup {SecretOf(1) \o BadPoint}

\* The instructions a caller may hand over: one per key pair that needs its
\* signature, and one that needs none.
ProgramId == [i \in 1..SECRET_KEY_LENGTH |-> 200]
SignedBy(n) == [program_id |-> ProgramId,
                accounts |-> << [pubkey |-> PubkeyOf(n), is_signer |-> TRUE] >>]
Unsigned == [program_id |-> ProgramId,
             accounts |-> << [pubkey |-> PubkeyOf(1), is_signer |-> FALSE] >>]
Instructions == {SignedBy(n) : n \in 1..NumSecrets} \cup {Unsigned}

InitBuild ==
    /\ instructions \in SeqsUpTo(Instructions, MaxInstructions)
    /\ fee_payer \in Pubkeys
    /\ signing_keypairs_sendable \in SeqsUpTo(KeyBuffers, MaxKeys)
    /\ bpc = "start"
    /\ blockhash = None
    /\ transaction = None
    /\ signing_keypairs = <<>>
    /\ positions = <<>>
    /\ signatures = <<>>
    /\ idx = 0
    /\ bret = Pending
    /\ chainHash = 1
    /\ served = <<>>

\* The network moves on to the next blockhash.
NetTick ==
    /\ chainHash < MaxHash
    /\ chainHash' = chainHash + 1
    /\ UNCHANGED << instructions, fee_payer, signing_keypairs_sendable, bpc, blockhash,
                    transaction, signing_keypairs, positions, signatures, idx, bret, served >>

\* line 26: get_latest_blockhash answers; line 27-28: the message and the
\* unsigned transaction.
BuildFetchOk ==
    /\ bpc = "start"
    /\ blockhash' = chainHash
    /\ served' = Append(served, Ok(chainHash))
    /\ transaction' = NewUnsigned(NewMessageWithBlockhash(instructions, fee_payer, chainHash))
    /\ idx' = 1
    /\ bpc' = "rebuild"
    /\ UNCHANGED << instructions, fee_payer, signing_keypairs_sendable, signing_keypairs,
                    positions, signatures, bret, chainHash >>

\* line 26: get_latest_blockhash fails and the unwrap panics.
BuildFetchFail ==
    /\ bpc = "start"
    /\ served' = Append(served, Err("ClientError"))
    /\ bret' = Panic("ClientError")
    /\ bpc' = "panicked"
    /\ UNCHANGED << instructions, fee_payer, signing_keypairs_sendable, blockhash,
                    transaction, signing_keypairs, positions, signatures, idx, chainHash >>

\* lines 30-32: one turn of the loop; the unwrap panics on a buffer that is
\* no key pair.
BuildRebuild ==
    /\ bpc = "rebuild"
    /\ idx <= Len(signing_keypairs_sendable)
    /\ LET r == KeypairFromBytes(signing_keypairs_sendable[idx])
       IN IF IsOk(r)
          THEN /\ signing_keypairs' = Append(signing_keypairs, r.value)
               /\ idx' = idx + 1
               /\ UNCHANGED << bpc, bret >>
          ELSE /\ bret' = Panic(r.error)
               /\ bpc' = "panicked"
               /\ UNCHANGED << signing_keypairs, idx >>
    /\ UNCHANGED << instructions, fee_payer, signing_keypairs_sendable, blockhash,
                    transaction, positions, signatures, chainHash, served >>

\* lines 34-36, try_partial_sign: the position of every key among the
\* required signers; a key that is none yields KeypairPubkeyMismatch and the
\* unwrap panics. Then try_partial_sign_unchecked takes the blockhash.
BuildPositions ==
    /\ bpc = "rebuild"
    /\ idx > Len(signing_keypairs_sendable)
    /\ LET pubkeys == [j \in 1..Len(signing_keypairs) |-> KeypairPubkey(signing_keypairs[j])]
           pos == SigningKeypairPositions(transaction, pubkeys)
       IN IF \E j \in 1..Len(pos) : pos[j] = 0
          THEN /\ bret' = Panic("KeypairPubkeyMismatch")
               /\ bpc' = "panicked"
               /\ UNCHANGED << positions, transaction, idx >>
          ELSE /\ positions' = pos
               /\ transaction' = WithBlockhash(transaction, blockhash)
               /\ idx' = 1
               /\ bpc' = "sign"
               /\ UNCHANGED bret
    /\ UNCHANGED << instructions, fee_payer, signing_keypairs_sendable, blockhash,
                    signing_keypairs, signatures, chainHash, served >>

\* Signers::try_sign_message: each key pair in turn signs message_data().
BuildSign ==
    /\ bpc = "sign"
    /\ idx <= Len(signing_keypairs)
    /\ signatures' = Append(signatures,
                            KeypairSign(signing_keypairs[idx], MessageData(transaction.message)))
    /\ idx' = idx + 1
    /\ UNCHANGED << instructions, fee_payer, signing_keypairs_sendable, bpc, blockhash,
                    transaction, signing_keypairs, positions, bret, chainHash, served >>

\* All signatures are made: on to attaching them.
BuildSigned ==
    /\ bpc = "sign"
    /\ idx > Len(signing_keypairs)
    /\ idx' = 1
    /\ bpc' = "attach"
    /\ UNCHANGED << instructions, fee_payer, signing_keypairs_sendable, blockhash,
                    transaction, signing_keypairs, positions, signatures, bret, chainHash,
                    served >>

\* Every signature written to the first slot.
SlotOfFirst(pos, i) == 1

\* The slot the i-th signature goes to.
SlotOf(pos, i) == pos[i]

\* for i in 0..positions.len(): signatures[positions[i]] = signatures[i]
BuildAttach ==
    /\ bpc = "attach"
    /\ idx <= Len(positions)
    /\ transaction' = [transaction EXCEPT !.signatures[SlotOf(positions, idx)] = signatures[idx]]
    /\ idx' = idx + 1
    /\ UNCHANGED << instructions, fee_payer, signing_keypairs_sendable, bpc, blockhash,
                    signing_keypairs, positions, signatures, bret, chainHash, served >>

\* line 37: Ok(transaction)
BuildReturn ==
    /\ bpc = "attach"
    /\ idx > Len(positions)
    /\ bret' = Ok(transaction)
    /\ bpc' = "returned"
    /\ UNCHANGED << instructions, fee_payer, signing_keypairs_sendable, blockhash,
                    transaction, signing_keypairs, positions, signatures, idx, chainHash,
                    served >>

\* ------------------------------------- keypair.rs: workers on one Keypair
Workers == 1..NumWorkers

\* The messages a worker may ask a signature for.
Messages == {<< 0 >>, << 1 >>}

InitKey ==
    /\ key \in {FromKeypair(kp) : kp \in Keypairs}
    /\ wpc = [w \in Workers |-> "idle"]
    /\ wop = [w \in Workers |-> "none"]
    /\ wmsg = [w \in Workers |-> None]
    /\ wctx = [w \in Workers |-> None]
    /\ wret = [w \in Workers |-> Pending]

\* A worker enters try_sign_message(&self, message).
CallSign(w) ==
    /\ wpc[w] = "idle"
    /\ \E m \in Messages : wmsg' = [wmsg EXCEPT ![w] = m]
    /\ wop' = [wop EXCEPT ![w] = "try_sign_message"]
    /\ wpc' = [wpc EXCEPT ![w] = "entered"]
    /\ wret' = [wret EXCEPT ![w] = Pending]
    /\ UNCHANGED << key, wctx >>

\* A worker enters try_pubkey(&self).
CallPubkey(w) ==
    /\ wpc[w] = "idle"
    /\ wmsg' = [wmsg EXCEPT ![w] = None]
    /\ wop' = [wop EXCEPT ![w] = "try_pubkey"]
    /\ wpc' = [wpc EXCEPT ![w] = "entered"]
    /\ wret' = [wret EXCEPT ![w] = Pending]
    /\ UNCHANGED << key, wctx >>

\* lines 62-63 and 71-72: the local `keypair` is rebuilt from self.keypair;
\* an error returns at once.
Rebuild(w) ==
    /\ wpc[w] = "entered"
    /\ LET r == RebuildContext(key)
       IN IF IsOk(r)
          THEN /\ wctx' = [wctx EXCEPT ![w] = r.value]
               /\ wpc' = [wpc EXCEPT ![w] = "rebuilt"]
               /\ UNCHANGED wret
          ELSE /\ wret' = [wret EXCEPT ![w] = r]
               /\ wpc' = [wpc EXCEPT ![w] = "returned"]
               /\ UNCHANGED wctx
    /\ UNCHANGED << key, wop, wmsg >>

\* The rebuilt context kept past the call.
ContextRetained(ctx) == ctx

\* The local `keypair` once the method's scope ends: dropped.
ContextAfterReturn(ctx) == None

\* lines 66 and 75: the value is computed with the local context, which goes
\* out of scope as the method returns.
Return(w) ==
    /\ wpc[w] = "rebuilt"
    /\ wret' = [wret EXCEPT ![w] =
                    IF wop[w] = "try_sign_message"
                    THEN Ok(KeypairSign(wctx[w], wmsg[w]))
                    ELSE Ok(KeypairPubkey(wctx[w]))]
    /\ wctx' = [wctx EXCEPT ![w] = ContextAfterReturn(wctx[w])]
    /\ wpc' = [wpc EXCEPT ![w] = "returned"]
    /\ UNCHANGED << key, wop, wmsg >>

\* The caller takes the value; the worker is free for its next call.
Finish(w) ==
    /\ wpc[w] = "returned"
    /\ wpc' = [wpc EXCEPT ![w] = "idle"]
    /\ UNCHANGED << key, wop, wmsg, wctx, wret >>

\* ------------------------------------- keypair.rs: from_base58_string
\* Characters of the texts tried: three of the alphabet and two outside it.
TextChars == {"1", "2", "z", "0", "l"}

InitText ==
    /\ text \in SeqsUpTo(TextChars, MaxTextLen)
    /\ tpc = "start"
    /\ tret = Pending

\* lines 52-56
CallFromBase58String ==
    /\ tpc = "start"
    /\ tret' = FromBase58String(text)
    /\ tpc' = "done"
    /\ UNCHANGED text

\* --------------------------------------------------- the network (RPC)
NoneOpt == [opt |-> "None"]
Some(v) == [opt |-> "Some", value |-> v]

\* T::DISCRIMINATOR of the account type T the caller decodes into.
Discriminator == << 7 >>

\* T::try_deserialize: the discriminator prefix, then T's one-byte field.
TryDeserialize(data) ==
    IF Len(data) < Len(Discriminator)
    THEN Err("AccountDiscriminatorNotFound")
    ELSE IF SubSeq(data, 1, Len(Discriminator)) # Discriminator
    THEN Err("AccountDiscriminatorMismatch")
    ELSE IF Len(data) < Len(Discriminator) + 1
    THEN Err("AccountDidNotDeserialize")
    ELSE Ok([field |-> data[Len(Discriminator) + 1]])

\* What an address may hold: nothing, an account of type T, an account of
\* another type, an account of type T cut short.
Account(data) == [data |-> data, owner |-> "program"]
AccountStates == {NoneOpt, Some(Account(Discriminator \o << 1 >>)),
                  Some(Account(<< 9, 1 >>)), Some(Account(Discriminator))}

\* bincode::serialize(transaction) and its inverse on the network's side.
Serialize(tx) == << tx.signatures, MessageData(tx.message) >>
Deserialize(bytes) ==
    [signatures |-> bytes[1],
     message |-> [header |-> [num_required_signatures |-> bytes[2][1]],
                  account_keys |-> bytes[2][2],
                  recent_blockhash |-> bytes[2][3],
                  instructions |-> bytes[2][4]]]

\* BASE64_STANDARD.encode
Base64(bytes) == [base64 |-> bytes]

\* The transactions handed to the pipeline: one paid by the first key pair,
\* without and with its signature.
UnsignedTx == NewUnsigned(NewMessageWithBlockhash(<< Unsigned >>, PubkeyOf(1), 1))
SignedTx ==
    [UnsignedTx EXCEPT !.signatures[1] = KeypairSign(GenKeypair(1), MessageData(UnsignedTx.message))]
Txns == {UnsignedTx, SignedTx}

\* The identifier of a transaction: its first signature.
TxId(tx) == tx.signatures[1]

\* A processed transaction writes its fee payer's account.
Apply(l, tx) ==
    [l EXCEPT ![tx.message.account_keys[1]] = Some(Account(Discriminator \o << 2 >>))]

\* The answers the network may give to a request, with the status of the
\* transactions after each: a transport failure to anything; an account or
\* none; a simulation's outcome; a transaction refused by preflight or
\* received.
NetAnswers(req) ==
    {[result |-> Err("ClientError"), status |-> status]} \cup
    CASE req.method = "getAccountInfo" ->
           {[result |-> Ok([value |-> ledger[req.address]]), status |-> status]}
      [] req.method = "simulateTransaction" ->
           LET tx == Deserialize(req.payload.base64)
           IN {[result |-> Ok([value |-> [err |-> IF req.sigVerify /\ ~TransactionVerifies(tx)
                                                  THEN Some("SignatureFailure")
                                                  ELSE NoneOpt]]),
                status |-> status]}
      [] req.method = "sendTransaction" ->
           LET tx == Deserialize(req.payload.base64)
           IN IF ~req.config.skip_preflight /\ ~TransactionVerifies(tx)
              THEN {[result |-> Err("SubmissionRejected"), status |-> status]}
              ELSE {[result |-> Ok(TxId(tx)),
                     status |-> IF status[tx] = "unknown"
                                THEN [status EXCEPT ![tx] = "received"]
                                ELSE status]}
      [] OTHER -> {}

\* The network processes a transaction it received: a fully signed one is
\* applied and confirmed, another is dropped.
NetProcess(tx) ==
    /\ status[tx] = "received"
    /\ IF TransactionVerifies(tx)
       THEN /\ ledger' = Apply(ledger, tx)
            /\ status' = [status EXCEPT ![tx] = "confirmed"]
       ELSE /\ status' = [status EXCEPT ![tx] = "dropped"]
            /\ UNCHANGED ledger
    /\ UNCHANGED << call, pc, requests, answer, ret, submitted >>

\* ------------------------------------------- rpc_async.rs: the client calls
\* lines 41-48: what send_txn asks of the client.
SendTxnCall(txn, skip_preflight) ==
    [fn |-> "send_and_confirm_transaction_with_spinner_and_config",
     commitment |-> "confirmed",
     request |-> [method |-> "sendTransaction",
                  payload |-> Base64(Serialize(txn)),
                  config |-> [skip_preflight |-> skip_preflight]]]

\* send_without_confirm_txn with the default configuration.
SendWithoutConfirmDefault(txn) ==
    [fn |-> "send_transaction_with_config",
     request |-> [method |-> "sendTransaction",
                  payload |-> Base64(Serialize(txn)),
                  config |-> [skip_preflight |-> FALSE]]]

\* lines 72-78: what send_without_confirm_txn asks of the client.
SendWithoutConfirmCall(txn) ==
    [fn |-> "send_transaction_with_config",
     request |-> [method |-> "sendTransaction",
                  payload |-> Base64(Serialize(txn)),
                  config |-> [skip_preflight |-> TRUE]]]

\* simulate_transaction making a sendTransaction request.
SimulateCallAsSend(txn, sig_verify, cfg) ==
    [fn |-> "send",
     request |-> [method |-> "sendTransaction",
                  payload |-> Base64(Serialize(txn)),
                  config |-> [skip_preflight |-> TRUE]]]

\* lines 57-68: what simulate_transaction asks of the client.
SimulateCall(txn, sig_verify, cfg) ==
    [fn |-> "send",
     request |-> [method |-> "simulateTransaction",
                  payload |-> Base64(Serialize(txn)),
                  sigVerify |-> sig_verify,
                  commitment |-> cfg,
                  encoding |-> "base64"]]

\* lines 82-83 and 97-98: what get_account and get_anchor_account ask.
GetAccountCall(addr) ==
    [fn |-> "get_account_with_commitment",
     request |-> [method |-> "getAccountInfo",
                  address |-> addr,
                  commitment |-> "processed"]]

\* get_account taking a failed round trip for an absent account.
GetAccountReturnLossy(r) ==
    IF ~IsOk(r)
    THEN Ok(NoneOpt)
    ELSE LET account == r.value.value
         IN IF account.opt = "Some" THEN Ok(Some(account.value.data)) ELSE Ok(NoneOpt)

\* lines 82-90: the `?` passes the client's error on; no account is
\* Ok(None); an account is Ok(Some(its data)).
GetAccountReturn(r) ==
    IF ~IsOk(r)
    THEN r
    ELSE LET account == r.value.value
         IN IF account.opt = "Some" THEN Ok(Some(account.value.data)) ELSE Ok(NoneOpt)

\* lines 97-106: as get_account, the data then decoded and the decoder's
\* result unwrapped.
GetAnchorAccountReturn(r) ==
    IF ~IsOk(r)
    THEN r
    ELSE LET account == r.value.value
         IN IF account.opt = "Some"
            THEN LET d == TryDeserialize(account.value.data)
                 IN IF IsOk(d) THEN Ok(Some(d.value)) ELSE Panic(d.error)
            ELSE Ok(NoneOpt)

\* What each operation makes of the client's result: the three others
\* return it as it is (Ok(..?) and a bare tail expression).
ReturnOf(c, r) ==
    CASE c.op = "get_account" -> GetAccountReturn(r)
      [] c.op = "get_anchor_account" -> GetAnchorAccountReturn(r)
      [] OTHER -> r

InitRpc ==
    /\ ledger \in [Pubkeys -> AccountStates]
    /\ status = [tx \in Txns |-> "unknown"]
    /\ call = None
    /\ pc = "idle"
    /\ requests = <<>>
    /\ answer = Pending
    /\ ret = Pending
    /\ submitted = FALSE

\* The pipeline function is entered and its client call makes its request.
Enter(op, args, client) ==
    /\ pc = "idle"
    /\ call' = [op |-> op, args |-> args, client |-> client]
    /\ requests' = << client.request >>
    /\ pc' = "awaiting"
    /\ answer' = Pending
    /\ ret' = Pending
    /\ UNCHANGED << ledger, status >>

GetAccount ==
    \E addr \in Pubkeys :
        /\ Enter("get_account", [addr |-> addr], GetAccountCall(addr))
        /\ UNCHANGED submitted

GetAnchorAccount ==
    \E addr \in Pubkeys :
        /\ Enter("get_anchor_account", [addr |-> addr], GetAccountCall(addr))
        /\ UNCHANGED submitted

SimulateTransaction ==
    \E txn \in Txns, sig_verify \in BOOLEAN, cfg \in {"processed", "confirmed"} :
        /\ Enter("simulate_transaction", [txn |-> txn, sig_verify |-> sig_verify, cfg |-> cfg],
                 SimulateCall(txn, sig_verify, cfg))
        /\ UNCHANGED submitted

SendWithoutConfirmTxn ==
    \E txn \in Txns :
        /\ Enter("send_without_confirm_txn", [txn |-> txn], SendWithoutConfirmCall(txn))
        /\ submitted' = TRUE

SendTxn ==
    \E txn \in Txns, skip_preflight \in BOOLEAN :
        /\ Enter("send_txn", [txn |-> txn, skip_preflight |-> skip_preflight],
                 SendTxnCall(txn, skip_preflight))
        /\ submitted' = TRUE

\* The network answers the request. send_and_confirm goes on to wait for the
\* transaction it sent; every other client function returns the answer.
NetAnswer ==
    /\ pc = "awaiting"
    /\ \E a \in NetAnswers(requests[Len(requests)]) :
          /\ status' = a.status
          /\ IF call.client.fn = "send_and_confirm_transaction_with_spinner_and_config"
                /\ IsOk(a.result)
             THEN pc' = "confirming" /\ UNCHANGED answer
             ELSE pc' = "answered" /\ answer' = a.result
    /\ UNCHANGED << ledger, call, requests, ret, submitted >>

\* send_and_confirm polls the transaction's status: confirmed at the asked
\* commitment it yields the identifier, dropped an error.
Confirm ==
    /\ pc = "confirming"
    /\ LET tx == Deserialize(call.client.request.payload.base64)
       IN /\ status[tx] \in {"confirmed", "dropped"}
          /\ answer' = IF status[tx] = "confirmed" THEN Ok(TxId(tx)) ELSE Err("TransactionError")
    /\ requests' = Append(requests, [method |-> "getSignatureStatuses"])
    /\ pc' = "answered"
    /\ UNCHANGED << ledger, status, call, ret, submitted >>

\* send_and_confirm gives up on a transaction still unconfirmed.
ConfirmGiveUp ==
    /\ pc = "confirming"
    /\ status[Deserialize(call.client.request.payload.base64)] = "received"
    /\ answer' = Err("ConfirmationTimeout")
    /\ requests' = Append(requests, [method |-> "getSignatureStatuses"])
    /\ pc' = "answered"
    /\ UNCHANGED << ledger, status, call, ret, submitted >>

\* The pipeline function returns.
RpcReturn ==
    /\ pc = "answered"
    /\ ret' = ReturnOf(call, answer)
    /\ pc' = "returned"
    /\ UNCHANGED << ledger, status, call, requests, answer, submitted >>

\* The caller takes the value and is free for its next call.
RpcFinish ==
    /\ pc = "returned"
    /\ pc' = "idle"
    /\ call' = None
    /\ requests' = <<>>
    /\ answer' = Pending
    /\ ret' = Pending
    /\ UNCHANGED << ledger, status, submitted >>

\* ------------------------------------------------------ specifications
\* The parts a specification leaves at rest.
KeyAtRest ==
    /\ key = FromKeypair(GenKeypair(1))
    /\ wpc = [w \in Workers |-> "idle"]
    /\ wop = [w \in Workers |-> "none"]
    /\ wmsg = [w \in Workers |-> None]
    /\ wctx = [w \in Workers |-> None]
    /\ wret = [w \in Workers |-> Pending]

TextAtRest == text = <<>> /\ tpc = "done" /\ tret = Pending

BuildAtRest ==
    /\ instructions = <<>>
    /\ fee_payer = PubkeyOf(1)
    /\ signing_keypairs_sendable = <<>>
    /\ bpc = "none"
    /\ blockhash = None
    /\ transaction = None
    /\ signing_keypairs = <<>>
    /\ positions = <<>>
    /\ signatures = <<>>
    /\ idx = 0
    /\ bret = Pending
    /\ chainHash = 1
    /\ served = <<>>

RpcAtRest ==
    /\ ledger = [a \in Pubkeys |-> NoneOpt]
    /\ status = [tx \in Txns |-> "unknown"]
    /\ call = None
    /\ pc = "none"
    /\ requests = <<>>
    /\ answer = Pending
    /\ ret = Pending
    /\ submitted = FALSE

\* The pipeline's calls to the network: rpc_async.rs but build_txn.
Init == InitRpc /\ KeyAtRest /\ TextAtRest /\ BuildAtRest
Next ==
    \/ (GetAccount /\ UNCHANGED << keyVars, textVars, buildVars >>)
    \/ (GetAnchorAccount /\ UNCHANGED << keyVars, textVars, buildVars >>)
    \/ (SimulateTransaction /\ UNCHANGED << keyVars, textVars, buildVars >>)
    \/ (SendWithoutConfirmTxn /\ UNCHANGED << keyVars, textVars, buildVars >>)
    \/ (SendTxn /\ UNCHANGED << keyVars, textVars, buildVars >>)
    \/ (NetAnswer /\ UNCHANGED << keyVars, textVars, buildVars >>)
    \/ (Confirm /\ UNCHANGED << keyVars, textVars, buildVars >>)
    \/ (ConfirmGiveUp /\ UNCHANGED << keyVars, textVars, buildVars >>)
    \/ (RpcReturn /\ UNCHANGED << keyVars, textVars, buildVars >>)
    \/ (RpcFinish /\ UNCHANGED << keyVars, textVars, buildVars >>)
    \/ (\E tx \in Txns : NetProcess(tx) /\ UNCHANGED << keyVars, textVars, buildVars >>)
Spec == Init /\ [][Next]_vars

\* One build_txn call.
InitB == InitBuild /\ KeyAtRest /\ TextAtRest /\ RpcAtRest
NextB ==
    \/ (NetTick /\ UNCHANGED << keyVars, textVars, rpcVars >>)
    \/ (BuildFetchOk /\ UNCHANGED << keyVars, textVars, rpcVars >>)
    \/ (BuildFetchFail /\ UNCHANGED << keyVars, textVars, rpcVars >>)
    \/ (BuildRebuild /\ UNCHANGED << keyVars, textVars, rpcVars >>)
    \/ (BuildPositions /\ UNCHANGED << keyVars, textVars, rpcVars >>)
    \/ (BuildSign /\ UNCHANGED << keyVars, textVars, rpcVars >>)
    \/ (BuildSigned /\ UNCHANGED << keyVars, textVars, rpcVars >>)
    \/ (BuildAttach /\ UNCHANGED << keyVars, textVars, rpcVars >>)
    \/ (BuildReturn /\ UNCHANGED << keyVars, textVars, rpcVars >>)
SpecBuild == InitB /\ [][NextB]_vars

\* Workers calling the Signer methods of one shared Keypair.
InitK == InitKey /\ TextAtRest /\ BuildAtRest /\ RpcAtRest
NextK ==
    \E w \in Workers :
        \/ (CallSign(w) /\ UNCHANGED << textVars, buildVars, rpcVars >>)
        \/ (CallPubkey(w) /\ UNCHANGED << textVars, buildVars, rpcVars >>)
        \/ (Rebuild(w) /\ UNCHANGED << textVars, buildVars, rpcVars >>)
        \/ (Return(w) /\ UNCHANGED << textVars, buildVars, rpcVars >>)
        \/ (Finish(w) /\ UNCHANGED << textVars, buildVars, rpcVars >>)
SpecKey == InitK /\ [][NextK]_vars

\* One Keypair::from_base58_string call.
InitT == InitText /\ KeyAtRest /\ BuildAtRest /\ RpcAtRest
NextT == CallFromBase58String /\ UNCHANGED << keyVars, buildVars, rpcVars >>
SpecText == InitT /\ [][NextT]_vars

\* =============================================================== claims
\* The call has ended, one way or the other.
BuildEnded == bpc \in {"returned", "panicked"}

\* The public identity of a 64-byte buffer, when it has one.
HasIdentity(buffer) == IsOk(TryPubkey([keypair |-> buffer]))
IdentityOf(buffer) == TryPubkey([keypair |-> buffer]).value

\* The signers the message needs: the fee payer and every account some
\* instruction marks as a signer.
RequiredSigners ==
    {fee_payer} \cup
    {k \in Pubkeys : \E i \in 1..Len(instructions) :
                        \E j \in 1..Len(instructions[i].accounts) :
                            /\ instructions[i].accounts[j].pubkey = k
                            /\ instructions[i].accounts[j].is_signer}

\* The public identities of the keys supplied.
SuppliedSigners ==
    {IdentityOf(signing_keypairs_sendable[i]) :
        i \in {j \in 1..Len(signing_keypairs_sendable) : HasIdentity(signing_keypairs_sendable[j])}}

\* C1 (as claimed): when the blockhash fetch fails, build_txn returns an error
\* value to its caller, with no transaction built and no signature made.
C1_FetchFailureIsReturned ==
    (BuildEnded /\ served # <<>> /\ IsErr(served[1]))
        => (IsErr(bret) /\ signatures = <<>>)

\* C2 (as claimed): when a supplied buffer cannot be rebuilt into a key pair,
\* or a key is not a required signer of the message, build_txn returns an
\* error value to its caller.
C2_SigningFailureIsReturned ==
    (/\ BuildEnded
     /\ served # <<>>
     /\ IsOk(served[1])
     /\ \E i \in 1..Len(signing_keypairs_sendable) :
            \/ ~HasIdentity(signing_keypairs_sendable[i])
            \/ IdentityOf(signing_keypairs_sendable[i]) \notin RequiredSigners)
        => IsErr(bret)

C7_BadTextIsDecodeError ==
    (/\ tpc = "done"
     /\ \/ \E i \in 1..Len(text) : ~IsBase58Char(text[i])
        \/ Len(Bs58Decode(text).value) # KEYPAIR_LENGTH)
        => IsErr(tret)

\* A pipeline call is under way or has just returned.
InCall(op) == pc \in {"awaiting", "confirming", "answered", "returned"} /\ call.op = op

\* C5: get_account returns Ok(None) when the network reports no account,
\* Ok(Some(data)) with the account's data when it reports one, and an error
\* when the round trip fails: three different outcomes.
C5_GetAccountOutcomes ==
    (InCall("get_account") /\ pc = "returned") =>
        /\ ~IsOk(answer) => (IsErr(ret) /\ ret = answer)
        /\ (IsOk(answer) /\ answer.value.value.opt = "None") => ret = Ok(NoneOpt)
        /\ (IsOk(answer) /\ answer.value.value.opt = "Some") =>
               ret = Ok(Some(answer.value.value.value.data))

\* C5's case: the address holds no account and get_account returned Ok(None).
C5_Witness ==
    /\ InCall("get_account")
    /\ pc = "returned"
    /\ ledger[call.args.addr] = NoneOpt
    /\ IsOk(answer)
    /\ ret = Ok(NoneOpt)

\* C6 (as claimed): get_anchor_account returns an error value when the
\* account's bytes do not decode into T, and Ok(None) when there is no account.
C6_DecodeFailureIsReturned ==
    (InCall("get_anchor_account") /\ pc = "returned" /\ IsOk(answer)) =>
        /\ (/\ answer.value.value.opt = "Some"
            /\ ~IsOk(TryDeserialize(answer.value.value.value.data))) => IsErr(ret)
        /\ answer.value.value.opt = "None" => ret = Ok(NoneOpt)

\* C8: send_without_confirm_txn makes exactly one request, a sendTransaction
\* with skip_preflight true, never waits for the transaction's status, and
\* returns the identifier it was acknowledged with; send_txn sends with the
\* caller's skip_preflight and returns an identifier only of a transaction
\* the network has confirmed.
C8_SubmissionOptions ==
    /\ InCall("send_without_confirm_txn") =>
          /\ Len(requests) = 1
          /\ requests[1].method = "sendTransaction"
          /\ requests[1].config.skip_preflight = TRUE
          /\ Deserialize(requests[1].payload.base64) = call.args.txn
          /\ pc # "confirming"
          /\ (pc = "returned" /\ IsOk(ret)) =>
                 (ret = Ok(TxId(call.args.txn)) /\ status[call.args.txn] # "unknown")
    /\ InCall("send_txn") =>
          /\ requests[1].method = "sendTransaction"
          /\ requests[1].config.skip_preflight = call.args.skip_preflight
          /\ Deserialize(requests[1].payload.base64) = call.args.txn
          /\ (pc = "returned" /\ IsOk(ret)) =>
                 (ret = Ok(TxId(call.args.txn)) /\ status[call.args.txn] = "confirmed")

\* C8's case: send_without_confirm_txn has returned the identifier of a
\* transaction the network has received and not yet processed.
C8_Witness ==
    /\ InCall("send_without_confirm_txn")
    /\ pc = "returned"
    /\ IsOk(ret)
    /\ status[call.args.txn] = "received"

\* C9: simulate_transaction makes only simulateTransaction requests, and as
\* long as neither send_txn nor send_without_confirm_txn has been called no
\* step changes what get_account returns for any address.
C9_SimulationHasNoEffect ==
    /\ [](InCall("simulate_transaction") =>
             /\ Len(requests) = 1
             /\ requests[1].method = "simulateTransaction")
    /\ [][~submitted' =>
             \A a \in Pubkeys :
                 GetAccountReturn(Ok([value |-> ledger'[a]]))
                     = GetAccountReturn(Ok([value |-> ledger[a]]))]_vars

\* C9's case: a simulation has returned its outcome and nothing was submitted.
C9_Witness ==
    /\ InCall("simulate_transaction")
    /\ pc = "returned"
    /\ IsOk(ret)
    /\ ~submitted

====
